---- MODULE Spec2Model ----
(***************************************************************************)
(* A model of simple_ortho/utils.py and simple_ortho/enums.py.             *)
(*                                                                         *)
(* Each utility is modelled as a small call machine: the initial state     *)
(* holds the arguments of one call, the actions are the statements of the  *)
(* function, and the final state holds the value returned or the exception *)
(* raised.  Every utility has a specification of its own (SpecWin,         *)
(* SpecUtm, ...) in which the variables of the other utilities stay idle.  *)
(*                                                                         *)
(* Fractional numbers are fixed-point: an integer count of 1/FracDen       *)
(* pixels (windows), of 1/DegDen degrees (latitudes and longitudes) or of 1/CoordDen     *)
(* pixels (remap coordinates).  Floating-point rounding is not modelled.   *)
(***************************************************************************)
EXTENDS Integers, Sequences, FiniteSets, TLC

VARIABLES
    \* expand_window_to_grid
    wpc, win, expand_pixels, exp_win,
    \* utm_crs_from_latlon
    upc, lat, lon, epsg,
    \* nan_equals
    npc, a, b, nan_eq,
    \* Interp.cv_list, Interp.to_cv, Interp.to_rio, CameraType.from_odm
    epc, cv_idx, _cv_list, cv_list_ret, to_cv_call, to_rio_call, from_odm_call,
    \* validate_collection
    vpc, template, coll, val_ret,
    \* profiler
    ppc, log_level, debug_branch, profile_enabled, tracing, body_runs, body_raised, uses,
    \* distort_image
    dpc, camera, image, nodata, interp, undist_ji, dist_image, writes, d_err

winVars == <<wpc, win, expand_pixels, exp_win>>
utmVars == <<upc, lat, lon, epsg>>
nanVars == <<npc, a, b, nan_eq>>
enumVars == <<epc, cv_idx, _cv_list, cv_list_ret, to_cv_call, to_rio_call, from_odm_call>>
valVars == <<vpc, template, coll, val_ret>>
profVars == <<ppc, log_level, debug_branch, profile_enabled, tracing, body_runs, body_raised, uses>>
distVars == <<dpc, camera, image, nodata, interp, undist_ji, dist_image, writes, d_err>>
vars == <<winVars, utmVars, nanVars, enumVars, valVars, profVars, distVars>>

\* the variables a utility leaves alone: those of all the others
exceptWin == <<utmVars, nanVars, enumVars, valVars, profVars, distVars>>
exceptUtm == <<winVars, nanVars, enumVars, valVars, profVars, distVars>>
exceptNan == <<winVars, utmVars, enumVars, valVars, profVars, distVars>>
exceptEnum == <<winVars, utmVars, nanVars, valVars, profVars, distVars>>
exceptVal == <<winVars, utmVars, nanVars, enumVars, profVars, distVars>>
exceptProf == <<winVars, utmVars, nanVars, enumVars, valVars, distVars>>
exceptDist == <<winVars, utmVars, nanVars, enumVars, valVars, profVars>>

(***************************************************************************)
(* Bounds                                                                  *)
(***************************************************************************)
FracDen == 4        \* window coordinates are multiples of 1/FracDen pixel
MaxOff == 6         \* |offset| <= MaxOff/FracDen pixels
MaxExt == 6         \* 0 <= width, height <= MaxExt/FracDen pixels
MaxPad == 1         \* 0 <= expand_pixels[i] <= MaxPad
DegDen == 10        \* longitudes and latitudes are multiples of 1/DegDen degree
MaxLen == 2         \* nan_equals: arrays of 1..MaxLen elements
MaxNum == 2         \* nan_equals: finite element values 0..MaxNum
MaxDepth == 2       \* validate_collection: nesting depth of templates and collections
MaxItems == 2       \* validate_collection: items in a collection list
MaxUses == 3        \* profiler: uses of the context in one process
CoordDen == 3       \* remap coordinates are multiples of 1/CoordDen pixel
MaxShift == 2       \* a camera displaces a pixel by at most MaxShift/CoordDen pixels
MaxVal == 2         \* source pixel values are 1..MaxVal; the pixel type holds 0..MaxVal+1

(***************************************************************************)
(* numpy helpers on fixed-point numbers (x stands for x/den)               *)
(***************************************************************************)
\* np.divmod(x, 1): (floor(x), x - floor(x)); the remainder stays fixed-point.
NpDivmod1(x, den) == <<x \div den, x % den>>

\* np.ceil(x) followed by .astype('int')
NpCeilMut(x, den) == x \div den

NpCeil(x, den) == -((-x) \div den)

(***************************************************************************)
(* expand_window_to_grid(win, expand_pixels)            utils.py 42-49     *)
(***************************************************************************)
Windows ==
    [col_off : -MaxOff..MaxOff, row_off : -MaxOff..MaxOff,
     width : 0..MaxExt, height : 0..MaxExt]

ExpandWindowToGrid(w, pad) ==
    LET col == NpDivmod1(w.col_off - pad[2] * FracDen, FracDen)
        row == NpDivmod1(w.row_off - pad[1] * FracDen, FracDen)
        width == NpCeil(w.width + 2 * pad[2] * FracDen + col[2], FracDen)
        height == NpCeil(w.height + 2 * pad[1] * FracDen + row[2], FracDen)
    IN  [col_off |-> col[1], row_off |-> row[1], width |-> width, height |-> height]

NoWindow == [col_off |-> 0, row_off |-> 0, width |-> 0, height |-> 0]

WinInit ==
    /\ wpc = "call"
    /\ win \in Windows
    /\ expand_pixels \in (0..MaxPad) \X (0..MaxPad)
    /\ exp_win = NoWindow

WinIdle ==
    /\ wpc = "idle"
    /\ win = NoWindow
    /\ expand_pixels = <<0, 0>>
    /\ exp_win = NoWindow

ExpandWindowCall ==
    /\ wpc = "call"
    /\ exp_win' = ExpandWindowToGrid(win, expand_pixels)
    /\ wpc' = "done"
    /\ UNCHANGED <<win, expand_pixels, exceptWin>>

(***************************************************************************)
(* utm_crs_from_latlon(lat, lon)                        utils.py 105-110   *)
(***************************************************************************)
\* np.floor(x / d) for fixed-point x and a positive whole d
NpFloorDiv(x, d, den) == x \div (d * den)

UtmZoneMut(lo) == NpFloorDiv(lo + 180 * DegDen, 6, DegDen) + 1

\* zone = int(np.floor((lon + 180) / 6) % 60) + 1
UtmZone(lo) == (NpFloorDiv(lo + 180 * DegDen, 6, DegDen) % 60) + 1

\* epsg = 32600 + zone if lat >= 0 else 32700 + zone
UtmEpsg(la, lo) == IF la >= 0 THEN 32600 + UtmZone(lo) ELSE 32700 + UtmZone(lo)

\* the latitudes tried: the poles, the equator, its two neighbours, and the
\* latitudes of Cape Town (-33.9) and London (51.5) when DegDen = 10
Lats == {-90 * DegDen, -339, -1, 0, 1, 515, 90 * DegDen}
Lons == (-180 * DegDen)..(180 * DegDen)

UtmInit ==
    /\ upc = "call"
    /\ lat \in Lats
    /\ lon \in Lons
    /\ epsg = 0

UtmIdle ==
    /\ upc = "idle"
    /\ lat = 0
    /\ lon = 0
    /\ epsg = 0

UtmCrsFromLatLon ==
    /\ upc = "call"
    /\ epsg' = UtmEpsg(lat, lon)
    /\ upc' = "done"
    /\ UNCHANGED <<lat, lon, exceptUtm>>

(***************************************************************************)
(* nan_equals(a, b)                                     utils.py 52-54     *)
(* A float is <<"num", n>> or <<"nan", 0>>; an array is a sequence of      *)
(* floats, a scalar an array of one element (numpy broadcasts it).         *)
(***************************************************************************)
NaN == <<"nan", 0>>
Num(n) == <<"num", n>>
Floats == {NaN} \cup {Num(n) : n \in 0..MaxNum}

\* np.isnan on one element
NpIsNan(x) == x[1] = "nan"

\* IEEE 754 ==: a NaN equals nothing, itself included
FloatEq(x, y) == ~NpIsNan(x) /\ ~NpIsNan(y) /\ x[2] = y[2]

\* the element of array x at index i of the broadcast shape
Broadcast(x, i) == IF Len(x) = 1 THEN x[1] ELSE x[i]
BroadcastLen(x, y) == IF Len(x) >= Len(y) THEN Len(x) ELSE Len(y)

NanEqualsElemMut(x, y) == FloatEq(x, y) \/ (NpIsNan(x) \/ NpIsNan(y))

\* (a == b) | (np.isnan(a) & np.isnan(b)), one element
NanEqualsElem(x, y) == FloatEq(x, y) \/ (NpIsNan(x) /\ NpIsNan(y))

NanEquals(x, y) ==
    [i \in 1..BroadcastLen(x, y) |-> NanEqualsElem(Broadcast(x, i), Broadcast(y, i))]

Arrays == UNION {[1..n -> Floats] : n \in 1..MaxLen}

NanInit ==
    /\ npc = "call"
    /\ a \in Arrays
    /\ b \in Arrays
    /\ Len(a) = Len(b) \/ Len(a) = 1 \/ Len(b) = 1
    /\ nan_eq = <<>>

NanIdle ==
    /\ npc = "idle"
    /\ a = <<>>
    /\ b = <<>>
    /\ nan_eq = <<>>

NanEqualsCall ==
    /\ npc = "call"
    /\ nan_eq' = NanEquals(a, b)
    /\ npc' = "done"
    /\ UNCHANGED <<a, b, exceptNan>>

(***************************************************************************)
(* enums.py: Interp (65-112) and CameraType.from_odm (56-62)               *)
(***************************************************************************)
\* list(Interp): the members in definition order
InterpMembers == <<"average", "bilinear", "cubic", "lanczos", "nearest">>

\* the dict of Interp.to_cv, with the values of the cv2 constants:
\* INTER_NEAREST 0, INTER_LINEAR 1, INTER_CUBIC 2, INTER_AREA 3, INTER_LANCZOS4 4
NameToCvMut ==
    [n \in {"bilinear", "cubic", "lanczos", "nearest"} |->
        CASE n = "bilinear" -> 1 [] n = "cubic" -> 2 [] n = "lanczos" -> 4 [] n = "nearest" -> 0]

NameToCv ==
    [n \in {"average", "bilinear", "cubic", "lanczos", "nearest"} |->
        CASE n = "average" -> 3 [] n = "bilinear" -> 1 [] n = "cubic" -> 2
          [] n = "lanczos" -> 4 [] n = "nearest" -> 0]

NoCall == [arg |-> "", ret |-> -1, err |-> "none"]

\* Interp.to_cv: the constant, or ValueError for a name the dict lacks
ToCv(name) ==
    IF name \notin DOMAIN NameToCv
    THEN [arg |-> name, ret |-> -1, err |-> "ValueError"]
    ELSE [arg |-> name, ret |-> NameToCv[name], err |-> "none"]

\* rasterio.enums.Resampling by name: nearest 0, bilinear 1, cubic 2,
\* cubic_spline 3, lanczos 4, average 5, mode 6, ...
RioResampling ==
    [n \in {"nearest", "bilinear", "cubic", "cubic_spline", "lanczos", "average", "mode"} |->
        CASE n = "nearest" -> 0 [] n = "bilinear" -> 1 [] n = "cubic" -> 2
          [] n = "cubic_spline" -> 3 [] n = "lanczos" -> 4 [] n = "average" -> 5
          [] n = "mode" -> 6]

\* Interp.to_rio: Resampling[self._name_] (KeyError for a name it lacks)
ToRio(name) ==
    IF name \notin DOMAIN RioResampling
    THEN [arg |-> name, ret |-> -1, err |-> "KeyError"]
    ELSE [arg |-> name, ret |-> RioResampling[name], err |-> "none"]

CameraTypeMembers == {"pinhole", "brown", "fisheye", "opencv"}

\* the projection type strings tried with CameraType.from_odm
OdmTypes == CameraTypeMembers \cup {"perspective", "spherical"}

\* CameraType.from_odm
FromOdm(cam_type) ==
    LET t == IF cam_type = "perspective" THEN "brown" ELSE cam_type
    IN  IF t \notin CameraTypeMembers
        THEN [arg |-> cam_type, ret |-> "", err |-> "ValueError"]
        ELSE [arg |-> cam_type, ret |-> t, err |-> "none"]

NoOdmCall == [arg |-> "", ret |-> "", err |-> "none"]

EnumInit ==
    /\ epc = "call"
    /\ cv_idx = 0
    /\ _cv_list = <<>>
    /\ cv_list_ret = <<>>
    /\ to_cv_call = NoCall
    /\ to_rio_call = NoCall
    /\ from_odm_call = NoOdmCall

EnumIdle ==
    /\ epc = "idle"
    /\ cv_idx = 0
    /\ _cv_list = <<>>
    /\ cv_list_ret = <<>>
    /\ to_cv_call = NoCall
    /\ to_rio_call = NoCall
    /\ from_odm_call = NoOdmCall

\* Interp.cv_list, line 91: _cv_list = []
CvListEnter ==
    /\ epc = "call"
    /\ _cv_list' = <<>>
    /\ cv_idx' = 1
    /\ epc' = "loop"
    /\ UNCHANGED <<cv_list_ret, to_cv_call, to_rio_call, from_odm_call, exceptEnum>>

\* one round of the loop of Interp.cv_list, lines 92-97
CvListStep ==
    /\ epc = "loop"
    /\ cv_idx <= Len(InterpMembers)
    /\ _cv_list' = IF ToCv(InterpMembers[cv_idx]).err = "none"
                   THEN Append(_cv_list, InterpMembers[cv_idx])
                   ELSE _cv_list
    /\ cv_idx' = cv_idx + 1
    /\ UNCHANGED <<epc, cv_list_ret, to_cv_call, to_rio_call, from_odm_call, exceptEnum>>

\* Interp.cv_list, line 98: return _cv_list
CvListReturn ==
    /\ epc = "loop"
    /\ cv_idx > Len(InterpMembers)
    /\ cv_list_ret' = _cv_list
    /\ epc' = "done"
    /\ UNCHANGED <<cv_idx, _cv_list, to_cv_call, to_rio_call, from_odm_call, exceptEnum>>

\* a caller converts a member with Interp.to_cv
ToCvCall ==
    /\ epc # "idle"
    /\ \E i \in 1..Len(InterpMembers) : to_cv_call' = ToCv(InterpMembers[i])
    /\ UNCHANGED <<epc, cv_idx, _cv_list, cv_list_ret, to_rio_call, from_odm_call, exceptEnum>>

\* a caller converts a member with Interp.to_rio
ToRioCall ==
    /\ epc # "idle"
    /\ \E i \in 1..Len(InterpMembers) : to_rio_call' = ToRio(InterpMembers[i])
    /\ UNCHANGED <<epc, cv_idx, _cv_list, cv_list_ret, to_cv_call, from_odm_call, exceptEnum>>

\* a caller converts an ODM / OpenSfM projection type
FromOdmCall ==
    /\ epc # "idle"
    /\ \E t \in OdmTypes : from_odm_call' = FromOdm(t)
    /\ UNCHANGED <<epc, cv_idx, _cv_list, cv_list_ret, to_cv_call, to_rio_call, exceptEnum>>

(***************************************************************************)
(* validate_collection(template, coll)                  utils.py 113-142   *)
(* A Python value is <<kind, payload>>: an int, a str, None, a type        *)
(* object, a list, a tuple, or a dict (the sequence of its <<key, value>>  *)
(* items in insertion order).                                              *)
(***************************************************************************)
PyInt(n) == <<"int", n>>
PyStr(x) == <<"str", x>>
PyNone == <<"none", 0>>
PyType(t) == <<"type", t>>
PyList(items) == <<"list", items>>
PyTuple(items) == <<"tuple", items>>
PyDict(items) == <<"dict", items>>

Kind(v) == v[1]
Items(v) == v[2]

\* isinstance(v, t) for a type object t
IsInstance(v, t) == Kind(t) = "type" /\ (Items(t) = "object" \/ Items(t) = Kind(v))

DictKeys(d) == {Items(d)[i][1] : i \in 1..Len(Items(d))}
DictGet(d, k) == Items(d)[CHOOSE i \in 1..Len(Items(d)) : Items(d)[i][1] = k][2]

\* Python's == on the values above
RECURSIVE PyEq(_, _)
PyEq(x, y) ==
    IF Kind(x) # Kind(y) THEN FALSE
    ELSE IF Kind(x) \in {"list", "tuple"}
    THEN /\ Len(Items(x)) = Len(Items(y))
         /\ \A i \in 1..Len(Items(x)) : PyEq(Items(x)[i], Items(y)[i])
    ELSE IF Kind(x) = "dict"
    THEN /\ DictKeys(x) = DictKeys(y)
         /\ \A k \in DictKeys(x) : PyEq(DictGet(x, k), DictGet(y, k))
    ELSE Items(x) = Items(y)

\* the exception validate_collection raises, or "ok" when it returns
RECURSIVE ValidateCollection(_, _)
RECURSIVE ValidateDictFrom(_, _, _)
RECURSIVE ValidateListFrom(_, _, _)

\* lines 122-126: for k in template, from the i-th key on
ValidateDictFrom(t, c, i) ==
    IF i > Len(Items(t)) THEN "ok"
    ELSE LET k == Items(t)[i][1] IN
         IF k \in DictKeys(c)
         THEN LET r == ValidateCollection(Items(t)[i][2], DictGet(c, k))
              IN  IF r # "ok" THEN r ELSE ValidateDictFrom(t, c, i + 1)
         ELSE "KeyError"

\* lines 129-130: for item in coll, from the i-th item on
ValidateListFrom(t, c, i) ==
    IF i > Len(Items(c)) THEN "ok"
    ELSE LET r == ValidateCollection(Items(t)[1], Items(c)[i])
         IN  IF r # "ok" THEN r ELSE ValidateListFrom(t, c, i + 1)

ValidateCollection(t, c) ==
    IF Kind(t) = "dict" /\ Kind(c) = "dict"
    THEN ValidateDictFrom(t, c, 1)
    ELSE IF /\ Kind(t) = "list" /\ Kind(c) = "list"
            /\ Len(Items(t)) # 0 /\ Len(Items(c)) # 0
    THEN ValidateListFrom(t, c, 1)
    ELSE IF Kind(t) = "type"
    THEN IF IsInstance(c, t) THEN "ok" ELSE "TypeError"
    ELSE IF Kind(t) = "tuple" /\ \A i \in 1..Len(Items(t)) : Kind(Items(t)[i]) = "type"
    THEN IF \E i \in 1..Len(Items(t)) : IsInstance(c, Items(t)[i]) THEN "ok" ELSE "TypeError"
    ELSE IF Kind(t) # "none"
    THEN IF PyEq(c, t) THEN "ok" ELSE "ValueError"
    ELSE "ok"

\* the collections and templates tried, by nesting depth
SeqsUpTo(S, n) == UNION {[1..m -> S] : m \in 0..n}

RECURSIVE Colls(_)
Colls(d) ==
    IF d = 0 THEN {PyInt(1), PyInt(2), PyStr("a"), PyNone}
    ELSE LET C == Colls(d - 1) IN
         C \cup {PyList(q) : q \in SeqsUpTo(C, MaxItems)}
           \cup {PyDict(<<>>)}
           \cup {PyDict(<< <<k, v>> >>) : k \in {"x", "y"}, v \in C}

RECURSIVE Templates(_)
Templates(d) ==
    IF d = 0
    THEN {PyType("int"), PyType("str"), PyInt(1), PyNone,
          PyTuple(<<PyType("int"), PyType("str")>>)}
    ELSE LET T == Templates(d - 1) IN
         T \cup {PyList(q) : q \in SeqsUpTo(T, 1)}
           \cup {PyDict(<< <<"x", t>> >>) : t \in T}

ValInit ==
    /\ vpc = "call"
    /\ template \in Templates(MaxDepth)
    /\ coll \in Colls(MaxDepth)
    /\ val_ret = ""

ValIdle ==
    /\ vpc = "idle"
    /\ template = PyNone
    /\ coll = PyNone
    /\ val_ret = ""

ValidateCall ==
    /\ vpc = "call"
    /\ val_ret' = ValidateCollection(template, coll)
    /\ vpc' = "done"
    /\ UNCHANGED <<template, coll, exceptVal>>

(***************************************************************************)
(* profiler()                                           utils.py 82-102    *)
(* One use is `with profiler(): body`.  The generator runs to its yield    *)
(* on entry; when the body returns it is resumed after the yield, and when *)
(* the body raises the exception is thrown into it at the yield, which no  *)
(* try statement encloses, so it leaves the generator at once.             *)
(***************************************************************************)
\* logging.DEBUG
DEBUG == 10

\* effective log levels tried: a custom level below DEBUG, DEBUG, INFO, WARNING
LogLevels == {5, DEBUG, 20, 30}

ProfInit ==
    /\ ppc = "call"
    /\ log_level \in LogLevels
    /\ debug_branch = FALSE
    /\ profile_enabled = FALSE
    /\ tracing = FALSE
    /\ body_runs = 0
    /\ body_raised = FALSE
    /\ uses = 1

ProfIdle ==
    /\ ppc = "idle"
    /\ log_level = 30
    /\ debug_branch = FALSE
    /\ profile_enabled = FALSE
    /\ tracing = FALSE
    /\ body_runs = 0
    /\ body_raised = FALSE
    /\ uses = 0

\* lines 85-90 and 101-102: up to the yield
ProfilerEnter ==
    /\ ppc = "call"
    /\ IF log_level <= DEBUG
       THEN /\ debug_branch' = TRUE
            /\ tracing' = TRUE
            /\ profile_enabled' = TRUE
       ELSE /\ debug_branch' = FALSE
            /\ UNCHANGED <<tracing, profile_enabled>>
    /\ ppc' = "body"
    /\ UNCHANGED <<log_level, body_runs, body_raised, uses, exceptProf>>

\* the body of the with statement completes
BodyReturn ==
    /\ ppc = "body"
    /\ body_runs' = body_runs + 1
    /\ ppc' = "resume"
    /\ UNCHANGED <<log_level, debug_branch, profile_enabled, tracing, body_raised, uses, exceptProf>>

\* the body of the with statement raises: the exception leaves the generator
\* at its yield and the with statement with it
BodyRaise ==
    /\ ppc = "body"
    /\ body_runs' = body_runs + 1
    /\ body_raised' = TRUE
    /\ ppc' = "exited"
    /\ UNCHANGED <<log_level, debug_branch, profile_enabled, tracing, uses, exceptProf>>

\* lines 92-100: after the yield
ProfilerResume ==
    /\ ppc = "resume"
    /\ IF debug_branch
       THEN /\ profile_enabled' = FALSE
            /\ tracing' = FALSE
       ELSE UNCHANGED <<tracing, profile_enabled>>
    /\ ppc' = "exited"
    /\ UNCHANGED <<log_level, debug_branch, body_runs, body_raised, uses, exceptProf>>

\* the process uses the context again, at some log level.  tracemalloc is
\* process-wide and keeps tracing; a Profile left enabled stays so while the
\* generator's frame is alive and is disabled when it is collected.
ProfilerNextUse ==
    /\ ppc = "exited"
    /\ uses < MaxUses
    /\ uses' = uses + 1
    /\ log_level' \in LogLevels
    /\ profile_enabled' \in {profile_enabled, FALSE}
    /\ debug_branch' = FALSE
    /\ body_runs' = 0
    /\ body_raised' = FALSE
    /\ ppc' = "call"
    /\ UNCHANGED <<tracing, exceptProf>>

(***************************************************************************)
(* distort_image(camera, image, nodata, interp)         utils.py 57-79     *)
(*                                                                         *)
(* An image is [shape, data]: the numpy shape and the samples in row-major *)
(* order.  A coordinate is [x, y, finite], x and y counted in 1/CoordDen   *)
(* pixels.  Pixel p of a (width, height) grid, p in 1..width*height, is    *)
(* column (p-1) % width of row (p-1) \div width.                           *)
(***************************************************************************)
\* camera._im_size values (width, height) tried
ImSizes == {<<1, 1>>, <<2, 1>>, <<1, 2>>, <<2, 2>>}

\* image.shape values tried: (rows, cols) and (bands, rows, cols)
ImShapes ==
    {<<sz[2], sz[1]>> : sz \in ImSizes}
      \cup {<<1, sz[2], sz[1]>> : sz \in ImSizes}
      \cup {<<2, 1, 1>>, <<2, 1, 2>>, <<2, 2, 1>>}

RECURSIVE SeqProduct(_)
SeqProduct(q) == IF q = <<>> THEN 1 ELSE q[1] * SeqProduct(Tail(q))

Reverse(q) == [k \in 1..Len(q) |-> q[Len(q) + 1 - k]]

Images == UNION {[shape : {sh}, data : [1..SeqProduct(sh) -> 1..MaxVal]] : sh \in ImShapes}

NoImage == [shape |-> <<>>, data |-> <<>>]

\* line 60: np.all(np.array(image.shape[::-1]) == camera._im_size).  Arrays of 3
\* and of 2 elements do not broadcast: numpy either compares them unequal as a
\* whole or raises ValueError itself, so the call raises ValueError both ways.
ShapeMatchesMut(shape, im_size) ==
    /\ Len(shape) >= Len(im_size)
    /\ \A k \in 1..Len(im_size) : Reverse(shape)[k] = im_size[k]

ShapeMatches(shape, im_size) ==
    /\ Len(shape) = Len(im_size)
    /\ \A k \in 1..Len(im_size) : Reverse(shape)[k] = im_size[k]

NPix(im_size) == im_size[1] * im_size[2]
ColOf(p, im_size) == (p - 1) % im_size[1]
RowOf(p, im_size) == (p - 1) \div im_size[1]

Coord(x, y) == [x |-> x, y |-> y, finite |-> TRUE]
NonFinite == [x |-> 0, y |-> 0, finite |-> FALSE]

PixelGridMut(im_size) ==
    [p \in 1..NPix(im_size) |->
        Coord(RowOf(p, im_size) * CoordDen, ColOf(p, im_size) * CoordDen)]

\* lines 64-67: the (j, i) grid of the distorted image, row by row
PixelGrid(im_size) ==
    [p \in 1..NPix(im_size) |->
        Coord(ColOf(p, im_size) * CoordDen, RowOf(p, im_size) * CoordDen)]

\* lines 70-71: camera._K_undistort.dot(camera._pixel_to_camera(ji))[:2], the
\* source coordinates of the grid.  A pinhole camera has no distortion and maps
\* each pixel to itself.  The other models displace it: pixels are remapped
\* independently of each other, so the displacement fields tried move every
\* pixel by the same (dx, dy), which takes each pixel to every coordinate
\* within MaxShift of it.  A fisheye camera also maps a corner pixel, outside
\* its field of view, to a non-finite coordinate.
Displaced(ji, dx, dy, nf) ==
    [p \in 1..Len(ji) |->
        IF p \in nf THEN NonFinite ELSE Coord(ji[p].x + dx, ji[p].y + dy)]

CameraMaps(cam, ji) ==
    IF cam.type = "pinhole" THEN {ji}
    ELSE {Displaced(ji, dx, dy, IF cam.type = "fisheye" THEN {1} ELSE {}) :
            dx \in -MaxShift..MaxShift, dy \in -MaxShift..MaxShift}

\* cv2's rounding of a coordinate to a pixel index: to nearest, ties to even
CvRound(x) ==
    LET q == x \div CoordDen
        r == x % CoordDen
    IN  IF 2 * r < CoordDen THEN q
        ELSE IF 2 * r > CoordDen THEN q + 1
        ELSE IF q % 2 = 0 THEN q ELSE q + 1

CvFloor(x) == x \div CoordDen

InSource(col, row, im_size) ==
    /\ 0 <= col /\ col < im_size[1]
    /\ 0 <= row /\ row < im_size[2]

Sample(img, col, row, im_size) == img.data[row * im_size[1] + col + 1]

\* The outliers of cv2.remap: coordinates that are not finite or whose nearest
\* pixel is outside the source.  With borderMode=BORDER_TRANSPARENT the
\* destination pixels of outliers are not modified.
IsOutlier(c, im_size) ==
    \/ ~c.finite
    \/ ~InSource(CvRound(c.x), CvRound(c.y), im_size)

\* half the width of the interpolation kernel: INTER_LINEAR (and INTER_AREA,
\* which remap treats as INTER_LINEAR) read 2 x 2 samples, INTER_CUBIC 4 x 4,
\* INTER_LANCZOS4 8 x 8
KernelRadius(cv_interp) ==
    CASE cv_interp = 2 -> 2
      [] cv_interp = 4 -> 4
      [] OTHER -> 1

Taps(x, cv_interp) ==
    (CvFloor(x) - KernelRadius(cv_interp) + 1)..(CvFloor(x) + KernelRadius(cv_interp))

\* the kernel reads source samples only
FootprintInside(c, cv_interp, im_size) ==
    /\ \A col \in Taps(c.x, cv_interp) : 0 <= col /\ col < im_size[1]
    /\ \A row \in Taps(c.y, cv_interp) : 0 <= row /\ row < im_size[2]

\* the source samples a kernel reads, samples beyond the border replaced by
\* the border's extension inwards
Clamp(t, n) == IF t < 0 THEN 0 ELSE IF t >= n THEN n - 1 ELSE t
FootprintSamples(img, c, cv_interp, im_size) ==
    {Sample(img, Clamp(col, im_size[1]), Clamp(row, im_size[2]), im_size) :
        col \in Taps(c.x, cv_interp), row \in Taps(c.y, cv_interp)}

SetMin(S) == CHOOSE m \in S : \A n \in S : m <= n
SetMax(S) == CHOOSE m \in S : \A n \in S : m >= n

\* The values interpolation at coordinate c may give.  INTER_NEAREST gives the
\* sample at the nearest pixel.  The other kernels have weights that sum to
\* one: at a whole coordinate the weight of that sample is one; where all
\* samples read are equal the value is that sample; otherwise it is a mean of
\* the samples (linear) or a value of the pixel type (cubic and Lanczos
\* weights may be negative), known only up to the backend's rounding.
Resampled(img, c, cv_interp, im_size) ==
    IF cv_interp = 0 \/ (c.x % CoordDen = 0 /\ c.y % CoordDen = 0)
    THEN {Sample(img, CvRound(c.x), CvRound(c.y), im_size)}
    ELSE LET F == FootprintSamples(img, c, cv_interp, im_size) IN
         IF Cardinality(F) = 1 THEN F
         ELSE IF KernelRadius(cv_interp) = 1 THEN SetMin(F)..SetMax(F)
         ELSE 0..(MaxVal + 1)

\* cv2.remap(..., dst=dist_image, borderMode=cv2.BORDER_TRANSPARENT) on one
\* destination pixel holding `old`: the set of <<value, written>> outcomes.
\* A pixel whose kernel leaves the source although its coordinate is inside is
\* skipped by some OpenCV versions and interpolated over the extended border
\* by others (`edge` is "skip" or "extend").
RemapPixelMut(img, c, cv_interp, im_size, old, edge) ==
    IF IsOutlier(c, im_size)
    THEN {<<0, 1>>}
    ELSE {<<v, 1>> : v \in Resampled(img, c, cv_interp, im_size)}

RemapPixel(img, c, cv_interp, im_size, old, edge) ==
    IF IsOutlier(c, im_size)
    THEN {<<old, 0>>}
    ELSE IF cv_interp = 0 \/ FootprintInside(c, cv_interp, im_size) \/ edge = "extend"
    THEN {<<v, 1>> : v \in Resampled(img, c, cv_interp, im_size)}
    ELSE {<<old, 0>>}

\* the outcomes of the first n destination pixels
RECURSIVE RemapOutcomes(_, _, _, _, _, _, _)
RemapOutcomes(n, img, map, cv_interp, im_size, dst, edge) ==
    IF n = 0 THEN {<<>>}
    ELSE {Append(q, o) :
            q \in RemapOutcomes(n - 1, img, map, cv_interp, im_size, dst, edge),
            o \in RemapPixel(img, map[n], cv_interp, im_size, dst.data[n], edge)}

\* line 74: np.full_like(image, fill_value=nodata)
FullLikeMut(img, fill) ==
    [shape |-> Reverse(img.shape), data |-> [p \in DOMAIN img.data |-> fill]]

FullLike(img, fill) == [shape |-> img.shape, data |-> [p \in DOMAIN img.data |-> fill]]

\* the camera models tried (opencv is the superset of brown)
Cameras == [type : {"pinhole", "brown", "fisheye"}, im_size : ImSizes]

DistInit ==
    /\ dpc = "call"
    /\ camera \in Cameras
    /\ image \in Images
    /\ nodata \in 0..1
    /\ interp \in {InterpMembers[k] : k \in 1..Len(InterpMembers)}
    /\ undist_ji = <<>>
    /\ dist_image = NoImage
    /\ writes = <<>>
    /\ d_err = "none"

DistIdle ==
    /\ dpc = "idle"
    /\ camera = [type |-> "pinhole", im_size |-> <<1, 1>>]
    /\ image = NoImage
    /\ nodata = 0
    /\ interp = "nearest"
    /\ undist_ji = <<>>
    /\ dist_image = NoImage
    /\ writes = <<>>
    /\ d_err = "none"

\* lines 60-61
DistortCheckShape ==
    /\ dpc = "call"
    /\ IF ShapeMatches(image.shape, camera.im_size)
       THEN dpc' = "grid" /\ d_err' = "none"
       ELSE dpc' = "raised" /\ d_err' = "ValueError"
    /\ UNCHANGED <<camera, image, nodata, interp, undist_ji, dist_image, writes, exceptDist>>

\* lines 63-71
DistortPixelToCamera ==
    /\ dpc = "grid"
    /\ undist_ji' \in CameraMaps(camera, PixelGrid(camera.im_size))
    /\ dpc' = "alloc"
    /\ UNCHANGED <<camera, image, nodata, interp, dist_image, writes, d_err, exceptDist>>

\* line 74
DistortFullLike ==
    /\ dpc = "alloc"
    /\ dist_image' = FullLike(image, nodata)
    /\ writes' = [p \in DOMAIN image.data |-> 0]
    /\ dpc' = "remap"
    /\ UNCHANGED <<camera, image, nodata, interp, undist_ji, d_err, exceptDist>>

\* lines 75-79: interp.to_cv(), cv2.remap into dist_image, return
DistortRemap ==
    /\ dpc = "remap"
    /\ LET cv == ToCv(interp) IN
       IF cv.err # "none"
       THEN /\ dpc' = "raised"
            /\ d_err' = cv.err
            /\ UNCHANGED <<dist_image, writes>>
       ELSE /\ \E edge \in {"skip", "extend"} :
                 \E outs \in RemapOutcomes(Len(undist_ji), image, undist_ji, cv.ret,
                                           camera.im_size, dist_image, edge) :
                    /\ dist_image' = [dist_image EXCEPT !.data = [p \in DOMAIN outs |-> outs[p][1]]]
                    /\ writes' = [p \in DOMAIN outs |-> writes[p] + outs[p][2]]
            /\ dpc' = "done"
            /\ d_err' = "none"
    /\ UNCHANGED <<camera, image, nodata, interp, undist_ji, exceptDist>>

(***************************************************************************)
(* Specifications                                                          *)
(***************************************************************************)
InitWin == WinInit /\ UtmIdle /\ NanIdle /\ EnumIdle /\ ValIdle /\ ProfIdle /\ DistIdle
NextWin == ExpandWindowCall
SpecWin == InitWin /\ [][NextWin]_vars

InitUtm == WinIdle /\ UtmInit /\ NanIdle /\ EnumIdle /\ ValIdle /\ ProfIdle /\ DistIdle
NextUtm == UtmCrsFromLatLon
SpecUtm == InitUtm /\ [][NextUtm]_vars

InitNan == WinIdle /\ UtmIdle /\ NanInit /\ EnumIdle /\ ValIdle /\ ProfIdle /\ DistIdle
NextNan == NanEqualsCall
SpecNan == InitNan /\ [][NextNan]_vars

InitEnum == WinIdle /\ UtmIdle /\ NanIdle /\ EnumInit /\ ValIdle /\ ProfIdle /\ DistIdle
NextEnum ==
    \/ CvListEnter
    \/ CvListStep
    \/ CvListReturn
    \/ ToCvCall
    \/ ToRioCall
    \/ FromOdmCall
SpecEnum == InitEnum /\ [][NextEnum]_vars

InitVal == WinIdle /\ UtmIdle /\ NanIdle /\ EnumIdle /\ ValInit /\ ProfIdle /\ DistIdle
NextVal == ValidateCall
SpecVal == InitVal /\ [][NextVal]_vars

InitProf == WinIdle /\ UtmIdle /\ NanIdle /\ EnumIdle /\ ValIdle /\ ProfInit /\ DistIdle
NextProf ==
    \/ ProfilerEnter
    \/ BodyReturn
    \/ BodyRaise
    \/ ProfilerResume
    \/ ProfilerNextUse
SpecProf == InitProf /\ [][NextProf]_vars

InitDist == WinIdle /\ UtmIdle /\ NanIdle /\ EnumIdle /\ ValIdle /\ ProfIdle /\ DistInit
NextDist ==
    \/ DistortCheckShape
    \/ DistortPixelToCamera
    \/ DistortFullLike
    \/ DistortRemap
SpecDist == InitDist /\ [][NextDist]_vars

(***************************************************************************)
(* C1: the window returned by expand_window_to_grid has                    *)
(* col_off' = floor(col_off - pad_cols), row_off' = floor(row_off -        *)
(* pad_rows), col_off' + width' = ceil(col_off + width + pad_cols) and     *)
(* row_off' + height' = ceil(row_off + height + pad_rows): it is the       *)
(* smallest whole-pixel window containing the input window expanded by the *)
(* padding on each side.  floor and ceil are stated by their defining      *)
(* inequalities on the fixed-point values.                                 *)
(***************************************************************************)
IsFloorOf(k, x) == k * FracDen <= x /\ x < (k + 1) * FracDen
IsCeilOf(k, x) == (k - 1) * FracDen < x /\ x <= k * FracDen

C1_SmallestEnclosingWindow ==
    wpc = "done" =>
        /\ IsFloorOf(exp_win.col_off, win.col_off - expand_pixels[2] * FracDen)
        /\ IsFloorOf(exp_win.row_off, win.row_off - expand_pixels[1] * FracDen)
        /\ IsCeilOf(exp_win.col_off + exp_win.width,
                    win.col_off + win.width + expand_pixels[2] * FracDen)
        /\ IsCeilOf(exp_win.row_off + exp_win.height,
                    win.row_off + win.height + expand_pixels[1] * FracDen)

\* a call with fractional, negative offsets and non-zero padding has returned
C1_Witness ==
    /\ wpc = "done"
    /\ win.col_off % FracDen # 0 /\ win.row_off < 0 /\ win.row_off % FracDen # 0
    /\ (win.col_off + win.width) % FracDen # 0
    /\ expand_pixels[1] > 0 /\ expand_pixels[2] > 0
    /\ exp_win.width > 2 * expand_pixels[2]

(***************************************************************************)
(* C5: for lat in [-90, 90] and lon in [-180, 180] utm_crs_from_latlon     *)
(* returns 32600 + zone when lat >= 0 and 32700 + zone when lat < 0, where *)
(* the zone is in 1..60, is the 6-degree band [-180 + 6(zone-1),           *)
(* -180 + 6 zone) holding lon (a longitude on a boundary belongs to the    *)
(* zone starting there), lon = 180 wraps to zone 1, latitude 0 is          *)
(* northern, (-33.9, 18.4) gives 32734 and (51.5, -0.1) gives 32630.       *)
(***************************************************************************)
ZoneOf(code) == code % 100

C5_UtmEpsg ==
    upc = "done" =>
        /\ ZoneOf(epsg) \in 1..60
        /\ epsg - ZoneOf(epsg) = (IF lat >= 0 THEN 32600 ELSE 32700)
        /\ lon < 180 * DegDen =>
              /\ (-180 + 6 * (ZoneOf(epsg) - 1)) * DegDen <= lon
              /\ lon < (-180 + 6 * ZoneOf(epsg)) * DegDen
        /\ lon = 180 * DegDen => ZoneOf(epsg) = 1
        /\ lat = 0 => epsg < 32700
        /\ (10 * lat = -339 * DegDen /\ 10 * lon = 184 * DegDen) => epsg = 32734
        /\ (10 * lat = 515 * DegDen /\ 10 * lon = -1 * DegDen) => epsg = 32630

\* the call returned for a southern latitude on a zone boundary, for the
\* equator at lon = 180, and for Cape Town
C5_Witness ==
    /\ upc = "done"
    /\ \/ lat < 0 /\ lon = 6 * DegDen /\ epsg = 32732
       \/ lat = 0 /\ lon = 180 * DegDen /\ epsg = 32601
       \/ 10 * lat = -339 * DegDen /\ 10 * lon = 184 * DegDen /\ epsg = 32734

(***************************************************************************)
(* C6: element by element, nan_equals(a, b) is true exactly when a equals  *)
(* b under ordinary equality or both are NaN; it is false when exactly one *)
(* of them is NaN, and the result is symmetric in a and b.                 *)
(***************************************************************************)
C6_NanEquals ==
    npc = "done" =>
        /\ Len(nan_eq) = BroadcastLen(a, b)
        /\ \A i \in 1..Len(nan_eq) :
              LET x == Broadcast(a, i)  y == Broadcast(b, i)
              IN  /\ (x = NaN /\ y = NaN) => nan_eq[i]
                  /\ (x = NaN /\ y # NaN) => ~nan_eq[i]
                  /\ (x # NaN /\ y = NaN) => ~nan_eq[i]
                  /\ (x # NaN /\ y # NaN) => (nan_eq[i] <=> x[2] = y[2])
        /\ nan_eq = NanEquals(b, a)

\* a comparison returned with a NaN against a NaN, a NaN against a number and
\* two equal numbers among its elements
C6_Witness ==
    /\ npc = "done"
    /\ \E i \in 1..Len(nan_eq) : Broadcast(a, i) = NaN /\ Broadcast(b, i) = NaN /\ nan_eq[i]
    /\ \E i \in 1..Len(nan_eq) : Broadcast(a, i) # NaN /\ Broadcast(b, i) = NaN /\ ~nan_eq[i]

(***************************************************************************)
(* C7: Interp.cv_list returns exactly the members of the enumeration that  *)
(* Interp.to_cv converts, in enumeration order: converting a member of the *)
(* list succeeds and returns its cv2 constant, converting a member         *)
(* outside the list raises ValueError, and average, bilinear, cubic,       *)
(* lanczos and nearest are all in the list.                                *)
(***************************************************************************)
Range(q) == {q[i] : i \in 1..Len(q)}

\* q holds members of the enumeration only, each once, in enumeration order
InEnumOrder(q) ==
    \A i, j \in 1..Len(q) :
        i < j => \E m, n \in 1..Len(InterpMembers) :
                    m < n /\ InterpMembers[m] = q[i] /\ InterpMembers[n] = q[j]

CvConstant(name) ==
    CASE name = "average" -> 3 [] name = "bilinear" -> 1 [] name = "cubic" -> 2
      [] name = "lanczos" -> 4 [] name = "nearest" -> 0 [] OTHER -> -1

C7_CvListIsConvertible ==
    epc = "done" =>
        /\ InEnumOrder(cv_list_ret)
        /\ {"average", "bilinear", "cubic", "lanczos", "nearest"} \subseteq Range(cv_list_ret)
        /\ to_cv_call.arg # "" =>
              IF to_cv_call.arg \in Range(cv_list_ret)
              THEN to_cv_call.err = "none" /\ to_cv_call.ret = CvConstant(to_cv_call.arg)
              ELSE to_cv_call.err = "ValueError"

\* cv_list has returned and a caller has converted a member of the list
C7_Witness ==
    /\ epc = "done"
    /\ Len(cv_list_ret) = 5
    /\ to_cv_call.arg = "average" /\ to_cv_call.ret = 3

(***************************************************************************)
(* C9: when the template and the collection are both lists,                *)
(* validate_collection raises if and only if at least one item of the      *)
(* collection list fails validation against the first item of the template *)
(* list, so a collection list with no items passes.                        *)
(***************************************************************************)
C9_ListItemsAgainstFirst ==
    (/\ vpc = "done"
     /\ Kind(template) = "list" /\ Kind(coll) = "list"
     /\ Len(Items(template)) > 0)
    => (val_ret # "ok" <=>
            \E i \in 1..Len(Items(coll)) :
                ValidateCollection(Items(template)[1], Items(coll)[i]) # "ok")

(***************************************************************************)
(* C10: in every use of the profiler context the body runs exactly once;   *)
(* at DEBUG level or lower profiling and memory tracing are on while the   *)
(* body runs and both are off once the context has exited, whether the     *)
(* body returned or raised; above DEBUG neither is started.                *)
(***************************************************************************)
C10_ProfilerStoppedOnExit ==
    /\ ppc = "exited" => body_runs = 1 /\ ~profile_enabled /\ ~tracing
    /\ (ppc \in {"body", "resume"} /\ log_level <= DEBUG) => profile_enabled /\ tracing
    /\ (ppc \in {"body", "resume"} /\ log_level > DEBUG /\ uses = 1) =>
            ~profile_enabled /\ ~tracing

(***************************************************************************)
(* distort_image: the terms of its claims                                  *)
(***************************************************************************)
ImWidth(shape) == shape[Len(shape)]
ImHeight(shape) == shape[Len(shape) - 1]
SizeMatches == ImWidth(image.shape) = camera.im_size[1] /\ ImHeight(image.shape) = camera.im_size[2]
Checked == dpc \in {"grid", "alloc", "remap", "done", "raised"}

\* a coordinate that is not finite, or farther than half a pixel from the
\* centre of every source pixel: outside the area the source image covers
OutsideSource(c, im_size) ==
    \/ ~c.finite
    \/ 2 * c.x < -CoordDen \/ 2 * c.x > (2 * im_size[1] - 1) * CoordDen
    \/ 2 * c.y < -CoordDen \/ 2 * c.y > (2 * im_size[2] - 1) * CoordDen

Uniform(img) == \A p, q \in DOMAIN img.data : img.data[p] = img.data[q]

(***************************************************************************)
(* C2 as stated: distort_image raises ValueError, before the camera        *)
(* mapping is consulted or an output buffer made, when the image's shape   *)
(* differs from the camera's image size, and raises no such error when the *)
(* image's width and height equal the camera's image size.                 *)
(***************************************************************************)
C2_Original ==
    Checked =>
        /\ ~SizeMatches =>
              /\ dpc = "raised" /\ d_err = "ValueError"
              /\ undist_ji = <<>> /\ dist_image = NoImage
        /\ SizeMatches => d_err # "ValueError"

(***************************************************************************)
(* C2 as amended: distort_image raises ValueError, before the camera       *)
(* mapping is consulted or an output buffer made, when the image's shape   *)
(* is not (height, width) of the camera's image size; it raises no such    *)
(* error when the image is 2D and its width and height equal the camera's  *)
(* image size.  An image with a third dimension is rejected even when its  *)
(* width and height match.                                                 *)
(***************************************************************************)
C2_ShapeMismatchRaises ==
    Checked =>
        /\ image.shape # <<camera.im_size[2], camera.im_size[1]>> =>
              /\ dpc = "raised" /\ d_err = "ValueError"
              /\ undist_ji = <<>> /\ dist_image = NoImage /\ writes = <<>>
        /\ image.shape = <<camera.im_size[2], camera.im_size[1]>> => d_err = "none"

\* the check has rejected a 2D image of another size and a 3D image whose
\* width and height match, or has passed a 2D image of the camera's size
C2_Witness ==
    \/ /\ dpc = "raised" /\ Len(image.shape) = 2 /\ ~SizeMatches
    \/ /\ dpc = "raised" /\ Len(image.shape) = 3 /\ SizeMatches

C4_Original ==
    (dpc \in {"done", "raised"} /\ SizeMatches) =>
        dpc = "done" /\ dist_image.shape = image.shape

(***************************************************************************)
(* C4 as amended: distort_image accepts a 2D image whose width and height  *)
(* equal the camera's image size and returns an output of the same shape   *)
(* and number of samples, leaving the input image unchanged; it rejects    *)
(* every 3D image with ValueError.                                         *)
(***************************************************************************)
C4_Accepts2DOnly ==
    /\ [](/\ (Checked /\ Len(image.shape) = 2 /\ SizeMatches) => dpc # "raised"
          /\ (Checked /\ Len(image.shape) = 3) => dpc = "raised" /\ d_err = "ValueError"
          /\ dpc \in {"remap", "done"} =>
                /\ Len(image.shape) = 2
                /\ dist_image.shape = image.shape
                /\ Len(dist_image.data) = Len(image.data))
    /\ [][image' = image]_vars

\* a call has returned the output of a 2D image that is not square
C4_Witness ==
    /\ dpc = "done"
    /\ image.shape = <<1, 2>>
    /\ dist_image.shape = <<1, 2>>

(***************************************************************************)
(* C8 as stated: for a pinhole camera and a source image of one value v,   *)
(* every output pixel whose source lookup is in bounds equals v and every  *)
(* pixel whose lookup is out of bounds equals nodata, for every supported  *)
(* interpolation method.                                                   *)
(***************************************************************************)
C8_Original ==
    (dpc = "done" /\ camera.type = "pinhole" /\ Uniform(image)) =>
        \A p \in DOMAIN dist_image.data :
            IF OutsideSource(undist_ji[p], camera.im_size)
            THEN dist_image.data[p] = nodata
            ELSE dist_image.data[p] = image.data[1]

(***************************************************************************)
(* C8 as amended: for a pinhole camera and a source image of one value v,  *)
(* every output pixel equals v or nodata; with nearest interpolation every *)
(* pixel equals v, and with bilinear or average interpolation so does      *)
(* every pixel outside the last row and the last column.  With the         *)
(* interpolating methods a pixel whose kernel reaches beyond the source    *)
(* image may be left at nodata although its lookup is in bounds.           *)
(***************************************************************************)
C8_UniformPinhole ==
    (dpc = "done" /\ camera.type = "pinhole" /\ Uniform(image)) =>
        \A p \in DOMAIN dist_image.data :
            /\ dist_image.data[p] \in {image.data[1], nodata}
            /\ interp = "nearest" => dist_image.data[p] = image.data[1]
            /\ (/\ interp \in {"bilinear", "average"}
                /\ ColOf(p, camera.im_size) < camera.im_size[1] - 1
                /\ RowOf(p, camera.im_size) < camera.im_size[2] - 1)
               => dist_image.data[p] = image.data[1]

\* a pinhole call on a uniform 2 x 2 image has returned with bilinear
\* interpolation: the first pixel holds v, a border pixel was left at nodata
C8_Witness ==
    /\ dpc = "done" /\ camera.type = "pinhole" /\ Uniform(image)
    /\ camera.im_size = <<2, 2>>
    /\ interp = "bilinear"
    /\ nodata # image.data[1]
    /\ dist_image.data[1] = image.data[1]
    /\ dist_image.data[4] = nodata
====
